---------------------------- MODULE Spec2Model ----------------------------
(***************************************************************************)
(* Policy Expert API (src/main.py, src/database.py): three tables and the  *)
(* HTTP handlers that read and upsert them.                                *)
(*                                                                         *)
(* Text values (Python str) are tuples of one-character strings, so that   *)
(* strip, replace, isdigit, int, ilike and f"{n:,}" are computed character *)
(* by character.  None is Python's None in a text column or field; NoDate  *)
(* is None in a date column.  Dates and datetimes are day numbers.         *)
(* A table is the set of its rows; a row is a record of its columns.       *)
(* Columns the handlers only copy from an insurance_claims row into the    *)
(* response (policy_number, claim_type, description, rejection_reason)     *)
(* are left out of the claim rows.                                         *)
(***************************************************************************)
EXTENDS Integers, Sequences, FiniteSets, TLC

VARIABLES
    customer_policies,  \* table customer_policies: set of rows
    customer_info,      \* table customer_info: set of rows
    insurance_claims,   \* table insurance_claims: set of rows
    now,                \* datetime.utcnow(), as a day number
    pc,                 \* pc[r]: where request r is in its handler
    request,            \* request[r]: endpoint and input of request r
    session,            \* session[r]: the SessionLocal() of request r
    updated_info,       \* updated_info[r]: the dict built by update_customer_info
    response,           \* response[r]: status code and body sent for r
    before              \* before[r]: the tables as they were when r began

vars == <<customer_policies, customer_info, insurance_claims, now, pc,
          request, session, updated_info, response, before>>

tables == <<customer_policies, customer_info, insurance_claims>>

---------------------------------------------------------------------------
(* Bounds of the model.                                                    *)

\* optional keys supplied in one customer_policy sub-payload
MaxSupplied == 1
\* the latest day on which the request is served (seed rows are dated day 1)
MaxDay == 2
\* request slots (concurrent sessions)
MaxSessions == 2
\* characters of a final_premium_amount text and of a search filter
MaxTextLen == 2
\* insurance_claims rows of one customer whose status and amount vary
MaxClaims == 2
\* insurance_claims rows of one customer when only their statuses vary
MaxBulk == 33

---------------------------------------------------------------------------
(* Values.                                                                 *)

None == <<"None">>
NoDate == 0

Names == { <<"A", "l">>, <<"B", "o">> }
Reqs == 1..MaxSessions

\* The 17 Optional[str] fields of CustomerPolicyUpdateRequest, in order.
PolicyFields ==
    << "vehicle_insurance", "medical_insurance", "life_insurance",
       "travel_insurance", "home_insurance",
       "vehicle_policy_numbers", "medical_policy_numbers",
       "life_policy_numbers", "travel_policy_numbers", "home_policy_numbers",
       "age", "location",
       "vehicle_addons", "medical_addons", "home_addons", "travel_addons",
       "life_addons" >>

PolicyFieldSet == { PolicyFields[i] : i \in 1..Len(PolicyFields) }

\* Every field the request model declares.
PolicyRequestFields == PolicyFieldSet \cup {"customer_name"}

\* Every column of customer_policies.
PolicyColumns ==
    PolicyRequestFields
        \cup {"last_policy_renewal", "customer_since", "created_at", "updated_at"}

InfoRequestFields == {"customer_name", "final_premium_amount", "addons_with_amount"}

\* Attribute access on a parsed request model: an unset field reads None.
Attr(data, f) == IF f \in DOMAIN data THEN data[f] ELSE None

---------------------------------------------------------------------------
(* str methods.                                                            *)

Whitespace == {" "}

RECURSIVE LStrip(_)
LStrip(s) ==
    IF s # <<>> /\ Head(s) \in Whitespace THEN LStrip(Tail(s)) ELSE s

RECURSIVE RStrip(_)
RStrip(s) ==
    IF s # <<>> /\ s[Len(s)] \in Whitespace
    THEN RStrip(SubSeq(s, 1, Len(s) - 1))
    ELSE s

\* str.strip()
Strip(s) == RStrip(LStrip(s))

\* Python truthiness of an Optional[str]: None and "" are falsy.
Truthy(v) == v # None /\ v # <<>>


---------------------------------------------------------------------------
(* Request models (pydantic) and rows (SQLAlchemy).                        *)

\* CustomerPolicyUpdateRequest(**raw): the declared fields that were supplied
\* (its __fields_set__, what dict(exclude_unset=True) returns); Config.extra
\* = "ignore" drops every other key.
ParsePolicy(raw) ==
    [f \in (DOMAIN raw) \cap PolicyRequestFields |-> raw[f]]

\* CustomerInfoUpdateRequest(**raw)
ParseInfo(raw) ==
    [f \in (DOMAIN raw) \cap InfoRequestFields |-> raw[f]]

\* query(Table).filter(Table.customer_name == name)
RowsNamed(table, name) == { x \in table : x.customer_name = name }

\* .first() found a row
Found(table, name) == RowsNamed(table, name) # {}

\* the row .first() returns
First(table, name) == CHOOSE x \in RowsNamed(table, name) : TRUE

\* Mutant of UpdatedInfo: addons_with_amount is guarded like
\* final_premium_amount, so a null never clears it.
UpdatedInfoKeepsAddons(row, data) ==
    [row EXCEPT
        !.final_premium_amount =
            IF Attr(data, "final_premium_amount") # None
            THEN Strip(data.final_premium_amount)
            ELSE @,
        !.addons_with_amount =
            IF Attr(data, "addons_with_amount") # None
            THEN data.addons_with_amount
            ELSE @]

\* "Update existing record" of customer_info
UpdatedInfo(row, data) ==
    [row EXCEPT
        !.final_premium_amount =
            IF Attr(data, "final_premium_amount") # None
            THEN Strip(data.final_premium_amount)
            ELSE @,
        !.addons_with_amount = Attr(data, "addons_with_amount")]

\* "Create new record" of customer_info
NewInfo(data) ==
    [customer_name |-> data.customer_name,
     final_premium_amount |->
        IF Truthy(Attr(data, "final_premium_amount"))
        THEN Strip(data.final_premium_amount)
        ELSE None,
     addons_with_amount |-> Attr(data, "addons_with_amount")]

\* Mutant of UpdatedPolicy: the loop lacks "value is not None", so a supplied
\* null overwrites.
UpdatedPolicyStoresNull(row, data, t) ==
    LET set == [f \in DOMAIN row |->
                    IF f \in DOMAIN data /\ f # "customer_name"
                    THEN data[f]
                    ELSE row[f]]
    IN  [set EXCEPT !.updated_at = t]

\* Mutant of UpdatedPolicy: the update also stamps customer_since.
UpdatedPolicyResetsSince(row, data, t) ==
    LET set == [f \in DOMAIN row |->
                    IF f \in DOMAIN data /\ f # "customer_name" /\ data[f] # None
                    THEN data[f]
                    ELSE row[f]]
    IN  [set EXCEPT !.updated_at = t, !.customer_since = t]

\* "Update existing record with all possible fields": the setattr loop over
\* dict(exclude_unset=True), then updated_at.
UpdatedPolicy(row, data, t) ==
    LET set == [f \in DOMAIN row |->
                    IF f \in DOMAIN data /\ f # "customer_name" /\ data[f] # None
                    THEN data[f]
                    ELSE row[f]]
    IN  [set EXCEPT !.updated_at = t]

\* Mutant of NewPolicy: the constructor also sets last_policy_renewal to
\* today.
NewPolicyRenewedToday(data, t) ==
    [f \in PolicyColumns |->
        CASE f = "customer_name" -> data.customer_name
          [] f \in {"last_policy_renewal", "customer_since", "created_at",
                    "updated_at"} -> t
          [] OTHER -> Attr(data, f)]

\* "Create new record (customer_name is required)"; the columns the
\* constructor is not given take their defaults when the row is inserted.
NewPolicy(data, t) ==
    [customer_name |-> data.customer_name,
     vehicle_insurance |-> Attr(data, "vehicle_insurance"),
     medical_insurance |-> Attr(data, "medical_insurance"),
     life_insurance |-> Attr(data, "life_insurance"),
     travel_insurance |-> Attr(data, "travel_insurance"),
     home_insurance |-> Attr(data, "home_insurance"),
     vehicle_policy_numbers |-> Attr(data, "vehicle_policy_numbers"),
     medical_policy_numbers |-> Attr(data, "medical_policy_numbers"),
     life_policy_numbers |-> Attr(data, "life_policy_numbers"),
     travel_policy_numbers |-> Attr(data, "travel_policy_numbers"),
     home_policy_numbers |-> Attr(data, "home_policy_numbers"),
     age |-> Attr(data, "age"),
     location |-> Attr(data, "location"),
     vehicle_addons |-> Attr(data, "vehicle_addons"),
     medical_addons |-> Attr(data, "medical_addons"),
     home_addons |-> Attr(data, "home_addons"),
     travel_addons |-> Attr(data, "travel_addons"),
     life_addons |-> Attr(data, "life_addons"),
     customer_since |-> t,
     last_policy_renewal |-> NoDate,
     created_at |-> t,
     updated_at |-> t]

\* date.isoformat() / datetime.isoformat()
IsoFormat(d) == <<"iso", d>>

\* x.isoformat() if x else None
IsoOrNone(d) == IF d # NoDate THEN IsoFormat(d) ELSE None

\* updated_info["customer_info"]
InfoEcho(row) ==
    [customer_name |-> row.customer_name,
     final_premium_amount |-> row.final_premium_amount,
     addons_with_amount |-> row.addons_with_amount]

\* updated_info["customer_policy"]
PolicyEcho(row) ==
    [f \in PolicyColumns \ {"created_at"} |->
        CASE f = "last_policy_renewal" -> IsoOrNone(row.last_policy_renewal)
          [] f = "customer_since" -> IsoFormat(row.customer_since)
          [] f = "updated_at" -> IsoFormat(row.updated_at)
          [] OTHER -> row[f]]

---------------------------------------------------------------------------
(* The session's unit of work.                                             *)

NoPending == [kind |-> "none"]

\* db.add(row): an INSERT at the next commit
Insert(row) == [kind |-> "insert", row |-> row, loaded |-> row]

\* attributes set on a loaded row: an UPDATE at the next commit
Update(loaded, row) == [kind |-> "update", row |-> row, loaded |-> loaded]

\* Mutant of CommitOk: the table has no primary key, every statement goes
\* through.
CommitUnconstrained(table, p) == TRUE

\* The primary key lets the statement through: an INSERT needs a new
\* customer_name.
CommitOk(table, p) ==
    p.kind = "update" \/ ~Found(table, p.row.customer_name)

\* The table after the statement: an UPDATE sets the columns whose value
\* differs from the loaded one, in the row with that primary key.
Committed(table, p) ==
    IF p.kind = "insert"
    THEN table \cup {p.row}
    ELSE { IF x.customer_name = p.row.customer_name
           THEN [f \in DOMAIN x |->
                    IF p.row[f] # p.loaded[f] THEN p.row[f] ELSE x[f]]
           ELSE x : x \in table }

\* db.refresh(row)
Refreshed(table, p) == First(table, p.row.customer_name)

OpenSession == [state |-> "open", pending |-> NoPending]
NoSession == [state |-> "none", pending |-> NoPending]
ClosedSession == [state |-> "closed", pending |-> NoPending]

EmptyDict == [k \in {} |-> None]

NoRequest == [endpoint |-> "none"]
NoResponse == [status |-> 0]

\* HTTPException(status_code, detail) raised out of the handler.  The detail
\* of a 500 is str(e); it is modelled by the call the exception came out of.
HttpError(code, detail) == [status |-> code, detail |-> detail]


---------------------------------------------------------------------------
(* POST /updatecustomerinfo: update_customer_info, one step per database   *)
(* round trip.                                                             *)

HasInfo(r) == "customer_info" \in DOMAIN request[r].body
HasPolicy(r) == "customer_policy" \in DOMAIN request[r].body

\* customer_info_data, customer_policy_data
InfoData(r) == ParseInfo(request[r].body.customer_info)
PolicyData(r) == ParsePolicy(request[r].body.customer_policy)

\* The request arrives: get_db opens its session, updated_info = {}.
UpdateBegin(r, body) ==
    /\ pc[r] = "idle"
    /\ pc' = [pc EXCEPT ![r] = "info"]
    /\ request' = [request EXCEPT ![r] = [endpoint |-> "update", body |-> body]]
    /\ session' = [session EXCEPT ![r] = OpenSession]
    /\ updated_info' = [updated_info EXCEPT ![r] = EmptyDict]
    /\ before' = [before EXCEPT ![r] = tables]
    /\ UNCHANGED <<tables, now, response>>

\* if update_request.customer_info: query, then update the row found or add
\* a new one.
InfoQuery(r) ==
    /\ pc[r] = "info"
    /\ IF HasInfo(r)
       THEN LET data == InfoData(r)
                name == data.customer_name
            IN  /\ session' = [session EXCEPT ![r].pending =
                        IF Found(customer_info, name)
                        THEN Update(First(customer_info, name),
                                    UpdatedInfo(First(customer_info, name), data))
                        ELSE Insert(NewInfo(data))]
                /\ pc' = [pc EXCEPT ![r] = "info_commit"]
       ELSE /\ pc' = [pc EXCEPT ![r] = "policy"]
            /\ UNCHANGED session
    /\ UNCHANGED <<tables, now, request, updated_info, response, before>>

\* Mutant of Raised: nothing was committed before the exception, so the
\* rollback undoes the whole request.
RaisedUndoesAll(r) ==
    /\ pc' = [pc EXCEPT ![r] = "done"]
    /\ session' = [session EXCEPT ![r].pending = NoPending]
    /\ response' = [response EXCEPT ![r] = HttpError(500, pc[r])]
    /\ customer_policies' = before[r][1]
    /\ customer_info' = before[r][2]
    /\ UNCHANGED <<insurance_claims, now, request, updated_info, before>>

\* An exception out of the try block: db.rollback(), then 500.
Raised(r) ==
    /\ pc' = [pc EXCEPT ![r] = "done"]
    /\ session' = [session EXCEPT ![r].pending = NoPending]
    /\ response' = [response EXCEPT ![r] = HttpError(500, pc[r])]
    /\ UNCHANGED <<tables, now, request, updated_info, before>>

\* db.commit() of the customer_info change; a primary-key conflict raises.
InfoCommit(r) ==
    /\ pc[r] = "info_commit"
    /\ IF CommitOk(customer_info, session[r].pending)
       THEN /\ customer_info' = Committed(customer_info, session[r].pending)
            /\ pc' = [pc EXCEPT ![r] = "info_refresh"]
            /\ UNCHANGED <<customer_policies, insurance_claims, now, request,
                           session, updated_info, response, before>>
       ELSE Raised(r)

\* db.refresh(customer_info); updated_info["customer_info"] = {...}
InfoRefresh(r) ==
    /\ pc[r] = "info_refresh"
    /\ updated_info' = [updated_info EXCEPT ![r] =
            [k \in (DOMAIN @) \cup {"customer_info"} |->
                IF k = "customer_info"
                THEN InfoEcho(Refreshed(customer_info, session[r].pending))
                ELSE @[k]]]
    /\ session' = [session EXCEPT ![r].pending = NoPending]
    /\ pc' = [pc EXCEPT ![r] = "policy"]
    /\ UNCHANGED <<tables, now, request, response, before>>

\* if update_request.customer_policy: query, then update the row found or
\* add a new one.
PolicyQuery(r) ==
    /\ pc[r] = "policy"
    /\ IF HasPolicy(r)
       THEN LET data == PolicyData(r)
                name == data.customer_name
            IN  /\ session' = [session EXCEPT ![r].pending =
                        IF Found(customer_policies, name)
                        THEN Update(First(customer_policies, name),
                                    UpdatedPolicy(First(customer_policies, name),
                                                  data, now))
                        ELSE Insert(NewPolicy(data, now))]
                /\ pc' = [pc EXCEPT ![r] = "policy_commit"]
       ELSE /\ pc' = [pc EXCEPT ![r] = "respond"]
            /\ UNCHANGED session
    /\ UNCHANGED <<tables, now, request, updated_info, response, before>>

\* db.commit() of the customer_policies change
PolicyCommit(r) ==
    /\ pc[r] = "policy_commit"
    /\ IF CommitOk(customer_policies, session[r].pending)
       THEN /\ customer_policies' =
                    Committed(customer_policies, session[r].pending)
            /\ pc' = [pc EXCEPT ![r] = "policy_refresh"]
            /\ UNCHANGED <<customer_info, insurance_claims, now, request,
                           session, updated_info, response, before>>
       ELSE Raised(r)

\* db.refresh(customer_policy); updated_info["customer_policy"] = {...}
PolicyRefresh(r) ==
    /\ pc[r] = "policy_refresh"
    /\ updated_info' = [updated_info EXCEPT ![r] =
            [k \in (DOMAIN @) \cup {"customer_policy"} |->
                IF k = "customer_policy"
                THEN PolicyEcho(Refreshed(customer_policies, session[r].pending))
                ELSE @[k]]]
    /\ session' = [session EXCEPT ![r].pending = NoPending]
    /\ pc' = [pc EXCEPT ![r] = "respond"]
    /\ UNCHANGED <<tables, now, request, response, before>>

\* Mutant of UpdateRespond: 400 unless both sub-payloads were applied.
UpdateRespondNeedsBoth(r) ==
    /\ pc[r] = "respond"
    /\ response' = [response EXCEPT ![r] =
            IF DOMAIN updated_info[r] # {"customer_info", "customer_policy"}
            THEN HttpError(400, "No update data provided")
            ELSE [status |-> 200, updated_data |-> updated_info[r]]]
    /\ session' = [session EXCEPT ![r].pending = NoPending]
    /\ pc' = [pc EXCEPT ![r] = "done"]
    /\ UNCHANGED <<tables, now, request, updated_info, before>>

\* if not updated_info: 400 (and db.rollback()); else the 200 response.
UpdateRespond(r) ==
    /\ pc[r] = "respond"
    /\ response' = [response EXCEPT ![r] =
            IF DOMAIN updated_info[r] = {}
            THEN HttpError(400, "No update data provided")
            ELSE [status |-> 200, updated_data |-> updated_info[r]]]
    /\ session' = [session EXCEPT ![r].pending = NoPending]
    /\ pc' = [pc EXCEPT ![r] = "done"]
    /\ UNCHANGED <<tables, now, request, updated_info, before>>

\* Where the handler of r is inside a database call (query, commit, refresh).
InDbCall(r) ==
    \/ pc[r] \in {"info_commit", "info_refresh", "policy_commit", "policy_refresh"}
    \/ pc[r] = "info" /\ HasInfo(r)
    \/ pc[r] = "policy" /\ HasPolicy(r)

\* The storage fails under the call (connection lost, timeout, constraint):
\* except Exception: db.rollback(); 500.
StorageError(r) ==
    /\ request[r].endpoint = "update"
    /\ InDbCall(r)
    /\ Raised(r)

\* Mutant of SessionClose: db.close() follows the yield without a finally,
\* so an exception raised out of the handler skips it.
SessionCloseUnlessRaised(r) ==
    /\ pc[r] = "done"
    /\ session' = [session EXCEPT ![r] =
            IF response[r].status = 200 THEN ClosedSession ELSE @]
    /\ pc' = [pc EXCEPT ![r] = "closed"]
    /\ UNCHANGED <<tables, now, request, updated_info, response, before>>

\* get_db's finally: db.close() once the response is out.
SessionClose(r) ==
    /\ pc[r] = "done"
    /\ session' = [session EXCEPT ![r] = ClosedSession]
    /\ pc' = [pc EXCEPT ![r] = "closed"]
    /\ UNCHANGED <<tables, now, request, updated_info, response, before>>

UpdateStep(r) ==
    \/ InfoQuery(r)
    \/ InfoCommit(r)
    \/ InfoRefresh(r)
    \/ PolicyQuery(r)
    \/ PolicyCommit(r)
    \/ PolicyRefresh(r)
    \/ UpdateRespond(r)
    \/ StorageError(r)
    \/ SessionClose(r)

---------------------------------------------------------------------------
(* GET /customerinfo/{customer_name}: get_customer_info.                   *)

DecimalDigits == <<"0", "1", "2", "3", "4", "5", "6", "7", "8", "9">>

IsDecimal(c) == \E i \in 1..Len(DecimalDigits) : DecimalDigits[i] = c

\* Characters str.isdigit() accepts: the decimal digits and digits that are
\* not decimal, such as the superscript two.
IsDigitChar(c) == IsDecimal(c) \/ c = "²"

\* s.replace(c, "")
Remove(s, c) == SelectSeq(s, LAMBDA ch : ch # c)

\* claim.amount.replace("₹", "").replace("?", "").replace(",", "").strip()
AmountStr(amount) == Strip(Remove(Remove(Remove(amount, "₹"), "?"), ","))

\* s.isdigit()
IsDigit(s) == s # <<>> /\ \A i \in 1..Len(s) : IsDigitChar(s[i])

\* int(s) raises ValueError on a character that is no decimal digit
IntRaises(s) == \E i \in 1..Len(s) : ~IsDecimal(s[i])

DigitValue(c) == CHOOSE d \in 0..9 : DecimalDigits[d + 1] = c

RECURSIVE ParseInt(_)
\* int(s), for a text of decimal digits
ParseInt(s) ==
    IF s = <<>> THEN 0
    ELSE 10 * ParseInt(SubSeq(s, 1, Len(s) - 1)) + DigitValue(s[Len(s)])

\* The loop over approved_claims (or rejected_claims) raises.
AmountsRaise(claims) ==
    \E i \in 1..Len(claims) :
        IsDigit(AmountStr(claims[i].amount)) /\ IntRaises(AmountStr(claims[i].amount))

RECURSIVE TotalAmount(_)
\* total_approved_amount (or total_rejected_amount) after the loop
TotalAmount(claims) ==
    IF claims = <<>> THEN 0
    ELSE LET amount_str == AmountStr(Head(claims).amount)
         IN  (IF IsDigit(amount_str) THEN ParseInt(amount_str) ELSE 0)
                + TotalAmount(Tail(claims))

RECURSIVE IntText(_)
\* str(n), n >= 0
IntText(n) ==
    IF n < 10 THEN <<DecimalDigits[n + 1]>>
    ELSE Append(IntText(n \div 10), DecimalDigits[(n % 10) + 1])

RECURSIVE FormatThousands(_)
\* f"{n:,}"
FormatThousands(n) ==
    IF n < 1000 THEN IntText(n)
    ELSE FormatThousands(n \div 1000)
            \o <<",", DecimalDigits[((n \div 100) % 10) + 1],
                 DecimalDigits[((n \div 10) % 10) + 1],
                 DecimalDigits[(n % 10) + 1]>>

\* round(n / d, 0) as Python rounds: to the nearest, a tie to the even one
RoundHalfEven(n, d) ==
    LET q == n \div d
        rem == n % d
    IN  IF 2 * rem < d THEN q
        ELSE IF 2 * rem > d THEN q + 1
        ELSE IF q % 2 = 0 THEN q ELSE q + 1

\* Mutant of ApprovalRate: the rate is cut to 2 decimals, not rounded.
ApprovalRateTruncated(approved, total) ==
    IF total > 0 THEN (approved * 10000) \div total ELSE 0

\* round((len(approved_claims) / total_claims * 100), 2) if total_claims > 0
\* else 0, in hundredths
ApprovalRate(approved, total) ==
    IF total > 0 THEN RoundHalfEven(approved * 10000, total) ELSE 0

RECURSIVE OrderedByDateDesc(_)
\* The orders .order_by(date_submitted.desc()).all() may return the rows in:
\* rows of equal date come in any order, rows without a date (NULL sorts
\* lowest) come last.
OrderedByDateDesc(rows) ==
    IF rows = {} THEN {<<>>}
    ELSE LET top == { x \in rows :
                        \A y \in rows : y.date_submitted <= x.date_submitted }
         IN  UNION { { <<x>> \o rest : rest \in OrderedByDateDesc(rows \ {x}) }
                     : x \in top }

\* ClaimResponse(...)
ClaimResponse(claim) ==
    [claim_id |-> claim.claim_id,
     amount |-> claim.amount,
     date_submitted |->
        IF claim.date_submitted # NoDate
        THEN IsoFormat(claim.date_submitted)
        ELSE <<>>,
     status |-> claim.status]

\* Mutant of WithStatus: statuses are compared without regard to case and
\* with blanks for underscores, so "Under Review" is under review.
WithStatusNormalised(claims, status) ==
    SelectSeq(claims, LAMBDA c :
        \/ c.status = status
        \/ status = "UNDER_REVIEW" /\ c.status = "Under Review")

\* [c for c in claims if c.status == status]
WithStatus(claims, status) == SelectSeq(claims, LAMBDA c : c.status = status)

\* claims_summary
ClaimsSummary(claims) ==
    [total_claims |-> Len(claims),
     approved_claims |-> Len(WithStatus(claims, "APPROVED")),
     rejected_claims |-> Len(WithStatus(claims, "REJECTED")),
     under_review_claims |-> Len(WithStatus(claims, "UNDER_REVIEW")),
     approval_rate |->
        ApprovalRate(Len(WithStatus(claims, "APPROVED")), Len(claims)),
     total_approved_amount |->
        FormatThousands(TotalAmount(WithStatus(claims, "APPROVED"))),
     total_rejected_amount |->
        FormatThousands(TotalAmount(WithStatus(claims, "REJECTED"))),
     last_claim_date |->
        IF claims # <<>> THEN IsoFormat(claims[1].date_submitted) ELSE None]

\* CustomerPolicyResponse(...)
PolicyResponse(row) ==
    [f \in PolicyColumns \ {"created_at", "updated_at"} |->
        CASE f = "last_policy_renewal" -> IsoOrNone(row.last_policy_renewal)
          [] f = "customer_since" -> IsoFormat(row.customer_since)
          [] OTHER -> row[f]]

\* Mutant of PolicyMissing: a customer without claims is not found either.
PolicyOrClaimsMissing(name) ==
    ~Found(customer_policies, name) \/ ~Found(insurance_claims, name)

\* if not customer_policy
PolicyMissing(name) == ~Found(customer_policies, name)

\* What the handler answers once the queries returned policy and claims.
LookupResponse(policy, claims) ==
    IF \/ AmountsRaise(WithStatus(claims, "APPROVED"))
       \/ AmountsRaise(WithStatus(claims, "REJECTED"))
    THEN HttpError(500, "invalid literal for int()")
    ELSE IF claims # <<>> /\ claims[1].date_submitted = NoDate
    THEN HttpError(500, "'NoneType' object has no attribute 'isoformat'")
    ELSE [status |-> 200,
          customer_policy |-> PolicyResponse(policy),
          claims |-> [i \in 1..Len(claims) |-> ClaimResponse(claims[i])],
          claims_summary |-> ClaimsSummary(claims)]

\* The whole handler; a read request holds its session from here to
\* SessionClose.
GetCustomerInfo(r, name) ==
    /\ pc[r] = "idle"
    /\ pc' = [pc EXCEPT ![r] = "done"]
    /\ request' = [request EXCEPT ![r] =
            [endpoint |-> "lookup", customer_name |-> name]]
    /\ session' = [session EXCEPT ![r] = OpenSession]
    /\ before' = [before EXCEPT ![r] = tables]
    /\ IF PolicyMissing(name)
       THEN response' = [response EXCEPT ![r] =
                HttpError(404, "not found in customer policies")]
       ELSE \E claims \in OrderedByDateDesc(RowsNamed(insurance_claims, name)) :
                response' = [response EXCEPT ![r] =
                    LookupResponse(First(customer_policies, name), claims)]
    /\ UNCHANGED <<tables, now, updated_info>>

---------------------------------------------------------------------------
(* GET /customerinfo?name=: search_customers.                              *)

UpperCase == <<"A", "B", "C", "D", "E", "F", "G", "H", "I", "J", "K", "L", "M",
               "N", "O", "P", "Q", "R", "S", "T", "U", "V", "W", "X", "Y", "Z">>
LowerCase == <<"a", "b", "c", "d", "e", "f", "g", "h", "i", "j", "k", "l", "m",
               "n", "o", "p", "q", "r", "s", "t", "u", "v", "w", "x", "y", "z">>

LowerChar(c) ==
    IF \E i \in 1..Len(UpperCase) : UpperCase[i] = c
    THEN LowerCase[CHOOSE i \in 1..Len(UpperCase) : UpperCase[i] = c]
    ELSE c

\* lower(s)
Lower(s) == [i \in 1..Len(s) |-> LowerChar(s[i])]

RECURSIVE Like(_, _)
\* s LIKE p: % matches any run of characters, _ any one character
Like(s, p) ==
    IF p = <<>> THEN s = <<>>
    ELSE IF Head(p) = "%"
    THEN Like(s, Tail(p)) \/ (s # <<>> /\ Like(Tail(s), p))
    ELSE /\ s # <<>>
         /\ Head(p) = "_" \/ Head(p) = Head(s)
         /\ Like(Tail(s), Tail(p))

\* CustomerPolicies.customer_name.ilike(f"%{name}%")
ILike(customer_name, name) ==
    Like(Lower(customer_name), Lower(<<"%">> \o name \o <<"%">>))

\* query.all() after the optional filter
SearchRows(name) ==
    IF Truthy(name)
    THEN { x \in customer_policies : ILike(x.customer_name, name) }
    ELSE customer_policies

RECURSIVE AnyOrder(_)
\* The orders .all() may return the rows in, there being no ORDER BY.
AnyOrder(rows) ==
    IF rows = {} THEN {<<>>}
    ELSE UNION { { <<x>> \o rest : rest \in AnyOrder(rows \ {x}) } : x \in rows }

PolicyTypes ==
    << <<"vehicle", "vehicle_insurance">>, <<"medical", "medical_insurance">>,
       <<"life", "life_insurance">>, <<"travel", "travel_insurance">>,
       <<"home", "home_insurance">> >>

\* "active_policies"
ActivePolicies(customer) ==
    LET held == SelectSeq(PolicyTypes, LAMBDA t : customer[t[2]] # None)
    IN  [i \in 1..Len(held) |-> held[i][1]]

\* one entry of results
SearchResult(customer) ==
    [customer_name |-> customer.customer_name,
     age |-> customer.age,
     location |-> customer.location,
     customer_since |-> IsoFormat(customer.customer_since),
     last_policy_renewal |-> IsoOrNone(customer.last_policy_renewal),
     active_policies |-> ActivePolicies(customer)]

\* The whole handler; name is None when the query string has no name.
SearchCustomers(r, name) ==
    /\ pc[r] = "idle"
    /\ pc' = [pc EXCEPT ![r] = "done"]
    /\ request' = [request EXCEPT ![r] = [endpoint |-> "search", name |-> name]]
    /\ session' = [session EXCEPT ![r] = OpenSession]
    /\ before' = [before EXCEPT ![r] = tables]
    /\ IF SearchRows(name) = {}
       THEN response' = [response EXCEPT ![r] =
                IF Truthy(name)
                THEN HttpError(404, "No customers found")
                ELSE [status |-> 200, customers |-> <<>>, total |-> 0]]
       ELSE \E customers \in AnyOrder(SearchRows(name)) :
                response' = [response EXCEPT ![r] =
                    [status |-> 200,
                     search_term |-> name,
                     total |-> Len(customers),
                     customers |->
                        [i \in 1..Len(customers) |-> SearchResult(customers[i])]]]
    /\ UNCHANGED <<tables, now, updated_info>>

---------------------------------------------------------------------------
(* GET /customerinfo/simple/{customer_name}, GET /health and GET /.        *)

\* Mutant of GetSimpleCustomerInfo: a missing row is created empty and
\* returned instead of 404.
GetSimpleCustomerInfoCreates(r, name) ==
    /\ pc[r] = "idle"
    /\ pc' = [pc EXCEPT ![r] = "done"]
    /\ request' = [request EXCEPT ![r] =
            [endpoint |-> "simple", customer_name |-> name]]
    /\ session' = [session EXCEPT ![r] = OpenSession]
    /\ before' = [before EXCEPT ![r] = tables]
    /\ customer_info' =
            IF Found(customer_info, name)
            THEN customer_info
            ELSE customer_info \cup
                    {[customer_name |-> name, final_premium_amount |-> None,
                      addons_with_amount |-> None]}
    /\ response' = [response EXCEPT ![r] =
            [status |-> 200, customer_name |-> name]]
    /\ UNCHANGED <<customer_policies, insurance_claims, now, updated_info>>

\* The whole handler: the customer_info row of that name, or 404.
GetSimpleCustomerInfo(r, name) ==
    /\ pc[r] = "idle"
    /\ pc' = [pc EXCEPT ![r] = "done"]
    /\ request' = [request EXCEPT ![r] =
            [endpoint |-> "simple", customer_name |-> name]]
    /\ session' = [session EXCEPT ![r] = OpenSession]
    /\ before' = [before EXCEPT ![r] = tables]
    /\ response' = [response EXCEPT ![r] =
            IF ~Found(customer_info, name)
            THEN HttpError(404, "not found in customer info")
            ELSE LET customer == First(customer_info, name)
                 IN  [status |-> 200,
                      customer_name |-> customer.customer_name,
                      final_premium_amount |-> customer.final_premium_amount,
                      addons_with_amount |-> customer.addons_with_amount]]
    /\ UNCHANGED <<tables, now, updated_info>>

\* The whole handler: SELECT 1 and the two counts, or the "unhealthy" body
\* when the storage does not answer; both are returned, not raised.
HealthCheck(r) ==
    /\ pc[r] = "idle"
    /\ pc' = [pc EXCEPT ![r] = "done"]
    /\ request' = [request EXCEPT ![r] = [endpoint |-> "health"]]
    /\ session' = [session EXCEPT ![r] = OpenSession]
    /\ before' = [before EXCEPT ![r] = tables]
    /\ \E connected \in BOOLEAN :
            response' = [response EXCEPT ![r] =
                IF connected
                THEN [status |-> 200,
                      health |-> "healthy",
                      total_customers |-> Cardinality(customer_policies),
                      total_claims |-> Cardinality(insurance_claims)]
                ELSE [status |-> 200, health |-> "unhealthy"]]
    /\ UNCHANGED <<tables, now, updated_info>>

\* The welcome message; the handler has no get_db dependency, so the request
\* ends without a session.
ReadRoot(r) ==
    /\ pc[r] = "idle"
    /\ pc' = [pc EXCEPT ![r] = "closed"]
    /\ request' = [request EXCEPT ![r] = [endpoint |-> "root"]]
    /\ response' = [response EXCEPT ![r] =
            [status |-> 200, message |-> "Welcome to Policy Expert API"]]
    /\ before' = [before EXCEPT ![r] = tables]
    /\ UNCHANGED <<tables, now, session, updated_info>>

---------------------------------------------------------------------------
(* Stored states and requests the specifications start from.               *)

\* a customer_policies row written before day 2
SeedPolicy(n) ==
    [f \in PolicyColumns |->
        CASE f = "customer_name" -> n
          [] f \in {"vehicle_insurance", "home_policy_numbers", "age",
                    "life_addons"} -> <<"x">>
          [] f \in {"last_policy_renewal", "customer_since", "created_at",
                    "updated_at"} -> 1
          [] OTHER -> None]

SeedInfo(n) ==
    [customer_name |-> n,
     final_premium_amount |-> <<"5">>,
     addons_with_amount |-> <<"a">>]

RECURSIVE SeqsUpTo(_, _)
\* the texts of at most n characters of S
SeqsUpTo(S, n) ==
    IF n = 0 THEN {<<>>}
    ELSE LET T == SeqsUpTo(S, n - 1)
         IN  T \cup { Append(t, c) : t \in T, c \in S }

RECURSIVE SubsetsUpTo(_, _)
\* the subsets of at most n elements of S
SubsetsUpTo(S, n) ==
    IF n = 0 THEN {{}}
    ELSE LET T == SubsetsUpTo(S, n - 1)
         IN  T \cup { t \cup {c} : t \in T, c \in S }

\* keys a customer_policy sub-payload may carry besides customer_name: the
\* declared fields and keys the request model does not declare
PolicyKeys == PolicyFieldSet \cup {"last_policy_renewal", "customer_since"}

\* customer_policy sub-payloads naming customer n
RawPolicies(n) ==
    UNION { { [f \in K \cup {"customer_name"} |->
                IF f = "customer_name" THEN n ELSE v[f]]
              : v \in [K -> {None, <<"y">>}] }
            : K \in SubsetsUpTo(PolicyKeys, MaxSupplied) }

PremiumTexts == SeqsUpTo({" ", "5"}, MaxTextLen)

\* customer_info sub-payloads naming customer n
RawInfos(n) ==
    UNION { { [f \in K \cup {"customer_name"} |->
                IF f = "customer_name" THEN n ELSE v[f]]
              : v \in { w \in [K -> PremiumTexts \cup {None, <<"b">>}] :
                          \A k \in K :
                             k = "addons_with_amount" => w[k] \in {None, <<"b">>} } }
            : K \in SUBSET {"final_premium_amount", "addons_with_amount"} }

Al == <<"A", "l">>
Bo == <<"B", "o">>

SimplePolicy == [customer_name |-> Al, location |-> <<"y">>]
SimpleInfo == [customer_name |-> Al, final_premium_amount |-> <<"5", "5">>]

\* a request body from its sub-payloads (a set of none or one each)
Body(infos, policies) ==
    [k \in {"customer_info" : i \in infos} \cup {"customer_policy" : q \in policies}
        |-> IF k = "customer_info"
            THEN CHOOSE i \in infos : TRUE
            ELSE CHOOSE q \in policies : TRUE]

Maybe(S) == {{}} \cup { {x} : x \in S }

\* UpdateCustomerInfoRequest bodies: any sub-payload of one entity beside
\* none or a fixed sub-payload of the other
UpdateBodies ==
    { Body(i, q) : i \in Maybe(RawInfos(Al)), q \in Maybe({SimplePolicy}) }
        \cup { Body(i, q) : i \in Maybe({SimpleInfo}), q \in Maybe(RawPolicies(Al)) }

InitRequests ==
    /\ pc = [r \in Reqs |-> "idle"]
    /\ request = [r \in Reqs |-> NoRequest]
    /\ session = [r \in Reqs |-> NoSession]
    /\ updated_info = [r \in Reqs |-> EmptyDict]
    /\ response = [r \in Reqs |-> NoResponse]
    /\ before = [r \in Reqs |-> tables]

SeedClaims ==
    { [claim_id |-> <<"c", "1">>, customer_name |-> <<"A", "l">>,
       amount |-> <<"4", "5">>, status |-> "APPROVED", date_submitted |-> 1] }

\* Any customer_policies rows beside one customer_info row, or any
\* customer_info rows beside one customer_policies row.
SeedTables ==
    { <<p, {SeedInfo(Al)}>> : p \in SUBSET { SeedPolicy(n) : n \in Names } }
        \cup { <<{SeedPolicy(Al)}, i>> : i \in SUBSET { SeedInfo(n) : n \in Names } }

Init ==
    /\ \E t \in SeedTables :
            /\ customer_policies = t[1]
            /\ customer_info = t[2]
    /\ insurance_claims = SeedClaims
    /\ now \in 2..MaxDay
    /\ InitRequests

\* One update request, served from any stored state.
Next ==
    \/ \E body \in UpdateBodies : UpdateBegin(1, body)
    \/ UpdateStep(1)

Spec == Init /\ [][Next]_vars


---------------------------------------------------------------------------
(* Properties of the update endpoint.                                      *)

BeforePolicies(r) == before[r][1]
BeforeInfo(r) == before[r][2]
BeforeClaims(r) == before[r][3]

IsUpdate(r) == request[r].endpoint = "update"
Responded(r) == pc[r] \in {"done", "closed"}

RawInfo(r) == request[r].body.customer_info
RawPolicy(r) == request[r].body.customer_policy

\* the commit of the sub-payload's change has succeeded
InfoApplied(r) ==
    /\ IsUpdate(r) /\ HasInfo(r)
    /\ pc[r] = "info_refresh" \/ "customer_info" \in DOMAIN updated_info[r]
PolicyApplied(r) ==
    /\ IsUpdate(r) /\ HasPolicy(r)
    /\ pc[r] = "policy_refresh" \/ "customer_policy" \in DOMAIN updated_info[r]

\* the request supplies a non-null value for key f of the sub-payload
Supplies(raw, f) == f \in DOMAIN raw /\ raw[f] # None

\* the rows of the table other than the one named
Others(table, name) == { x \in table : x.customer_name # name }

\* C1: a customer_policy sub-payload applied to an existing row leaves every
\* field that is omitted or null as stored before, stores every non-null
\* supplied value, and never changes customer_name, customer_since or
\* last_policy_renewal.
C1_PartialUpdate ==
    \A r \in Reqs :
        (PolicyApplied(r) /\ Found(BeforePolicies(r), RawPolicy(r).customer_name))
        => LET raw == RawPolicy(r)
               old == First(BeforePolicies(r), raw.customer_name)
               rows == RowsNamed(customer_policies, raw.customer_name)
           IN  /\ Cardinality(rows) = 1
               /\ \A new \in rows :
                    /\ \A f \in PolicyFieldSet :
                         new[f] = IF Supplies(raw, f) THEN raw[f] ELSE old[f]
                    /\ new.customer_name = old.customer_name
                    /\ new.customer_since = old.customer_since
                    /\ new.last_policy_renewal = old.last_policy_renewal

\* C1 witness: an existing row's non-null vehicle_insurance was overwritten
\* by the supplied value and the request was answered 200.
C1_Witness ==
    /\ pc[1] = "closed" /\ response[1].status = 200
    /\ PolicyApplied(1)
    /\ Found(BeforePolicies(1), Al)
    /\ First(BeforePolicies(1), Al).vehicle_insurance = <<"x">>
    /\ Supplies(RawPolicy(1), "vehicle_insurance")
    /\ First(customer_policies, Al).vehicle_insurance = <<"y">>
    /\ First(customer_policies, Al).age = <<"x">>

\* C2: a customer_info sub-payload applied to an existing row stores the
\* request's addons_with_amount (None when null or omitted), whatever was
\* stored before.
C2_AddonsAlwaysOverwritten ==
    \A r \in Reqs :
        (InfoApplied(r) /\ Found(BeforeInfo(r), RawInfo(r).customer_name))
        => LET raw == RawInfo(r)
               rows == RowsNamed(customer_info, raw.customer_name)
           IN  /\ Cardinality(rows) = 1
               /\ \A new \in rows :
                    new.addons_with_amount =
                        IF "addons_with_amount" \in DOMAIN raw
                        THEN raw.addons_with_amount
                        ELSE None

\* C2 witness: a stored non-null addons_with_amount was cleared by a request
\* that omits the field, answered 200.
C2_Witness ==
    /\ pc[1] = "closed" /\ response[1].status = 200
    /\ InfoApplied(1)
    /\ Found(BeforeInfo(1), Al)
    /\ First(BeforeInfo(1), Al).addons_with_amount = <<"a">>
    /\ "addons_with_amount" \notin DOMAIN RawInfo(1)
    /\ "final_premium_amount" \in DOMAIN RawInfo(1)
    /\ First(customer_info, Al).addons_with_amount = None

\* C3 (as claimed): final_premium_amount of an existing row becomes the
\* stripped supplied value when one is supplied non-null and is unchanged
\* otherwise; a new row stores the stripped value for every non-null input
\* and null otherwise.
C3_PremiumTrimmedOnUpdateAndCreate ==
    \A r \in Reqs :
        InfoApplied(r)
        => LET raw == RawInfo(r)
               name == raw.customer_name
           IN  \A new \in RowsNamed(customer_info, name) :
                  new.final_premium_amount =
                     IF Supplies(raw, "final_premium_amount")
                     THEN Strip(raw.final_premium_amount)
                     ELSE IF Found(BeforeInfo(r), name)
                          THEN First(BeforeInfo(r), name).final_premium_amount
                          ELSE None

\* C4: a customer_policy sub-payload for a name with no row inserts exactly
\* one row: customer_since is the current date, every declared field holds
\* the supplied value or null, last_policy_renewal is null, the other rows
\* are untouched, and the 200 response echoes the row.
C4_CreatePolicy ==
    \A r \in Reqs :
        (PolicyApplied(r) /\ ~Found(BeforePolicies(r), RawPolicy(r).customer_name))
        => LET raw == RawPolicy(r)
               name == raw.customer_name
               rows == RowsNamed(customer_policies, name)
           IN  /\ Cardinality(rows) = 1
               /\ Others(customer_policies, name) = BeforePolicies(r)
               /\ \A new \in rows :
                    /\ new.customer_since = now
                    /\ new.last_policy_renewal = NoDate
                    /\ \A f \in PolicyFieldSet :
                         new[f] = IF f \in DOMAIN raw THEN raw[f] ELSE None
                    /\ (Responded(r) /\ response[r].status = 200)
                       => LET echo == response[r].updated_data.customer_policy
                          IN  /\ echo.customer_name = name
                              /\ echo.customer_since = IsoFormat(now)
                              /\ echo.last_policy_renewal = None
                              /\ \A f \in PolicyFieldSet : echo[f] = new[f]

\* C4 witness: a row was created for Al from a sub-payload that supplies
\* location only, and the request was answered 200.
C4_Witness ==
    /\ pc[1] = "closed" /\ response[1].status = 200
    /\ PolicyApplied(1)
    /\ ~Found(BeforePolicies(1), Al)
    /\ DOMAIN RawPolicy(1) = {"customer_name", "location"}
    /\ RawPolicy(1).location = <<"y">>
    /\ Found(customer_policies, Al)
    /\ First(customer_policies, Al).location = <<"y">>
    /\ First(customer_policies, Al).age = None

\* the request carried both sub-payloads, the customer_info one was committed
\* and echoed, and an exception then came out of the customer_policy part
PolicyPartFailed(r) ==
    /\ IsUpdate(r) /\ HasInfo(r) /\ HasPolicy(r)
    /\ Responded(r)
    /\ response[r].status = 500
    /\ response[r].detail \in {"policy", "policy_commit", "policy_refresh"}

\* the customer_info change of r is in the table
InfoChangePersisted(r) ==
    LET raw == RawInfo(r)
        rows == RowsNamed(customer_info, raw.customer_name)
    IN  /\ Cardinality(rows) = 1
        /\ \A new \in rows :
              new.addons_with_amount = Attr(ParseInfo(raw), "addons_with_amount")
        /\ Others(customer_info, raw.customer_name)
              = Others(BeforeInfo(r), raw.customer_name)

\* C5 (as claimed): when the customer_policy part of a request with both
\* sub-payloads fails, the request ends 500, the customer_info change stays
\* and the customer_policies table is as it was before the request.
C5_PolicyFailureLeavesPolicyTable ==
    \A r \in Reqs :
        PolicyPartFailed(r)
        => /\ InfoChangePersisted(r)
           /\ customer_policies = BeforePolicies(r)

\* C5 (amended): when the customer_policy part fails, the request ends 500
\* and the customer_info change stays; the customer_policies table is as
\* before the request if the query or the commit failed, and holds the
\* committed change if db.refresh failed after the commit.
C5_PolicyFailureKeepsInfo ==
    \A r \in Reqs :
        /\ PolicyPartFailed(r)
           => /\ InfoChangePersisted(r)
              /\ response[r].detail \in {"policy", "policy_commit"}
                    => customer_policies = BeforePolicies(r)
              /\ response[r].detail = "policy_refresh"
                    => /\ customer_policies # BeforePolicies(r)
                       /\ Others(customer_policies, RawPolicy(r).customer_name)
                            = Others(BeforePolicies(r), RawPolicy(r).customer_name)
        \* an exception out of either part ends the request with 500
        /\ (IsUpdate(r) /\ Responded(r) /\ response[r].status = 500)
           => session[r].pending = NoPending

\* C5 witness: the commit of the customer_policy part failed after the
\* customer_info part had cleared a stored addons_with_amount.
C5_Witness ==
    /\ PolicyPartFailed(1)
    /\ response[1].detail = "policy_commit"
    /\ customer_info # BeforeInfo(1)
    /\ customer_policies = BeforePolicies(1)

\* C6: a request with neither sub-payload is answered 400 and changes no
\* table; 400 is answered only then; a request with exactly one sub-payload
\* that is answered 200 has applied and echoed it and left the other
\* entity's table alone.
C6_BadRequestOnlyWhenEmpty ==
    \A r \in Reqs :
        (IsUpdate(r) /\ Responded(r))
        => /\ (~HasInfo(r) /\ ~HasPolicy(r))
                => /\ response[r].status = 400
                   /\ tables = before[r]
           /\ response[r].status = 400 => (~HasInfo(r) /\ ~HasPolicy(r))
           /\ (HasInfo(r) /\ ~HasPolicy(r) /\ response[r].status = 200)
                => /\ DOMAIN response[r].updated_data = {"customer_info"}
                   /\ InfoEcho(First(customer_info, RawInfo(r).customer_name))
                        = response[r].updated_data.customer_info
                   /\ customer_policies = BeforePolicies(r)
           /\ (HasPolicy(r) /\ ~HasInfo(r) /\ response[r].status = 200)
                => /\ DOMAIN response[r].updated_data = {"customer_policy"}
                   /\ PolicyEcho(First(customer_policies, RawPolicy(r).customer_name))
                        = response[r].updated_data.customer_policy
                   /\ customer_policies # BeforePolicies(r)
                   /\ customer_info = BeforeInfo(r)
           /\ (HasInfo(r) \/ HasPolicy(r)) => response[r].status \in {200, 500}

\* C6 witness: a request carrying only a customer_policy sub-payload was
\* applied and answered 200.
C6_Witness ==
    /\ pc[1] = "closed"
    /\ IsUpdate(1) /\ HasPolicy(1) /\ ~HasInfo(1)
    /\ response[1].status = 200
    /\ customer_policies # BeforePolicies(1)


---------------------------------------------------------------------------
(* The full-info lookup, served from stored claims.                        *)

Statuses == {"APPROVED", "REJECTED", "UNDER_REVIEW", "Under Review"}

\* "₹45,000", "?12", " 7 ", "4.5", "²"
AmountSamples ==
    { <<"₹", "4", "5", ",", "0", "0", "0">>, <<"?", "1", "2">>,
      <<" ", "7", " ">>, <<"4", ".", "5">>, <<"²">> }

\* the i-th claim of customer n, submitted on day i
Claim(i, n, status, amount) ==
    [claim_id |-> <<"c">> \o IntText(i),
     customer_name |-> n,
     amount |-> amount,
     status |-> status,
     date_submitted |-> i]

RECURSIVE ClaimSets(_)
\* the sets of k claims of Al, of any status and amount
ClaimSets(k) ==
    IF k = 0 THEN {{}}
    ELSE { t \cup {Claim(k, Al, st, am)} :
            t \in ClaimSets(k - 1), st \in Statuses, am \in AmountSamples }

\* Up to MaxClaims claims of Al, beside none or one approved claim of Bo.
LookupClaimTables ==
    { t \cup b : t \in UNION { ClaimSets(k) : k \in 0..MaxClaims },
                 b \in { {}, {Claim(MaxClaims + 1, Bo, "APPROVED", <<"₹", "9">>)} } }

InitLookup ==
    /\ customer_policies \in { {}, {SeedPolicy(Al)}, {SeedPolicy(Al), SeedPolicy(Bo)} }
    /\ customer_info \in { {}, {SeedInfo(Al)} }
    /\ insurance_claims \in LookupClaimTables
    /\ now = MaxDay
    /\ InitRequests

NextLookup ==
    \/ \E name \in Names : GetCustomerInfo(1, name)
    \/ SessionClose(1)

\* Full-info lookups over any stored claims.
SpecLookup == InitLookup /\ [][NextLookup]_vars

\* a approved and b rejected claims of Al
BulkClaims(a, b) ==
    { Claim(i, Al, IF i <= a THEN "APPROVED" ELSE "REJECTED", <<"1">>)
        : i \in 1..(a + b) }

InitRate ==
    /\ customer_policies = {SeedPolicy(Al)}
    /\ customer_info = {}
    /\ \E a \in 0..MaxBulk : \E b \in 0..(MaxBulk - a) :
            insurance_claims = BulkClaims(a, b)
    /\ now = MaxDay
    /\ InitRequests

\* Full-info lookups of a customer with many claims.
SpecRate == InitRate /\ [][NextLookup]_vars


---------------------------------------------------------------------------
(* Properties of the full-info lookup.                                     *)

IsLookup(r) == request[r].endpoint = "lookup"

\* the stored claims of the customer the lookup names
ClaimsOf(r) == RowsNamed(insurance_claims, request[r].customer_name)

\* C7: the full-info lookup answers 404 exactly when customer_policies has
\* no row for the name, whatever insurance_claims and customer_info hold.
C7_NotFoundIffNoPolicy ==
    \A r \in Reqs :
        (IsLookup(r) /\ Responded(r))
        => (response[r].status = 404
                <=> ~Found(customer_policies, request[r].customer_name))

\* C7 witness: a lookup answered 404 for a name that has claims and a
\* customer_info row but no customer_policies row.
C7_Witness ==
    /\ IsLookup(1) /\ pc[1] = "closed"
    /\ response[1].status = 404
    /\ request[1].customer_name = Al
    /\ Found(insurance_claims, Al)
    /\ Found(customer_info, Al)

\* C8: in an answered lookup total_claims and approved_claims count the
\* customer's claims, approval_rate is approved / total * 100 to the nearest
\* hundredth (0 without claims) and lies between 0 and 100; a customer with
\* a policy row and claims whose amounts and dates are well formed is always
\* answered 200.
C8_ApprovalRate ==
    \A r \in Reqs :
        (IsLookup(r) /\ Responded(r) /\ Found(customer_policies, request[r].customer_name))
        => LET total == Cardinality(ClaimsOf(r))
               approved == Cardinality({ c \in ClaimsOf(r) : c.status = "APPROVED" })
               summary == response[r].claims_summary
               rate == summary.approval_rate
               err == rate * total - approved * 10000
           IN  /\ response[r].status = 200
               /\ summary.total_claims = total
               /\ summary.approved_claims = approved
               /\ total = 0 => rate = 0
               /\ total > 0 => 2 * (IF err < 0 THEN 0 - err ELSE err) <= total
               /\ rate >= 0 /\ rate <= 10000

\* C8 witness: 1 approved claim of 32 gives 3.125, answered as 3.12.
C8_Witness ==
    /\ IsLookup(1) /\ pc[1] = "closed"
    /\ response[1].status = 200
    /\ response[1].claims_summary.total_claims = 32
    /\ response[1].claims_summary.approved_claims = 1
    /\ response[1].claims_summary.approval_rate = 312

\* the integer the claim gives an amount: the currency signs, the commas and
\* the surrounding blanks removed, what is left read as decimal digits, or 0
\* when it is not all digits
ClaimedAmount(amount) ==
    LET rest == AmountStr(amount)
    IN  IF rest # <<>> /\ \A i \in 1..Len(rest) : IsDecimal(rest[i])
        THEN ParseInt(rest)
        ELSE 0

RECURSIVE ClaimedTotal(_)
ClaimedTotal(claims) ==
    IF claims = {} THEN 0
    ELSE LET c == CHOOSE x \in claims : TRUE
         IN  ClaimedAmount(c.amount) + ClaimedTotal(claims \ {c})

\* C9 (as claimed): the lookup of a customer with a policy row never fails
\* over an amount; total_approved_amount is the sum of the amounts of exactly
\* the APPROVED claims and total_rejected_amount that of the REJECTED ones,
\* an amount that is not all digits counting 0.
C9_AmountTotals ==
    \A r \in Reqs :
        (/\ IsLookup(r) /\ Responded(r)
         /\ Found(customer_policies, request[r].customer_name)
         /\ \A c \in ClaimsOf(r) : c.date_submitted # NoDate)
        => /\ response[r].status = 200
           /\ ParseInt(Remove(response[r].claims_summary.total_approved_amount, ","))
                = ClaimedTotal({ c \in ClaimsOf(r) : c.status = "APPROVED" })
           /\ ParseInt(Remove(response[r].claims_summary.total_rejected_amount, ","))
                = ClaimedTotal({ c \in ClaimsOf(r) : c.status = "REJECTED" })


---------------------------------------------------------------------------
(* The search, served from any stored customers.                           *)

SearchFilters == SeqsUpTo({"a", "L", "o", "x", "%", "_"}, MaxTextLen)

InitSearch ==
    /\ customer_policies \in SUBSET { SeedPolicy(n) : n \in Names }
    /\ customer_info = {}
    /\ insurance_claims = SeedClaims
    /\ now = MaxDay
    /\ InitRequests

NextSearch ==
    \/ \E name \in SearchFilters \cup {None} : SearchCustomers(1, name)
    \/ SessionClose(1)

SpecSearch == InitSearch /\ [][NextSearch]_vars

IsSearch(r) == request[r].endpoint = "search"

\* t occurs in s
Contains(s, t) ==
    \E i \in 0..(Len(s) - Len(t)) : SubSeq(s, i + 1, i + Len(t)) = t

\* the rows whose name contains the filter, case-insensitively; every row
\* when no filter is supplied
SubstringMatches(name) ==
    IF name = None
    THEN customer_policies
    ELSE { x \in customer_policies : Contains(Lower(x.customer_name), Lower(name)) }

\* C10 (as claimed): a supplied filter that no customer name contains is
\* answered 404; no filter on an empty table is answered 200 with an empty
\* list and total 0; and when some record matches, the 200 response lists
\* exactly the matching records, total being their number.
C10_SearchResults ==
    \A r \in Reqs :
        (IsSearch(r) /\ Responded(r))
        => LET name == request[r].name
               matches == SubstringMatches(name)
           IN  /\ (name # None /\ matches = {}) => response[r].status = 404
               /\ (name = None /\ customer_policies = {})
                    => /\ response[r].status = 200
                       /\ response[r].customers = <<>>
                       /\ response[r].total = 0
               /\ matches # {}
                    => /\ response[r].status = 200
                       /\ response[r].total = Cardinality(matches)
                       /\ Len(response[r].customers) = Cardinality(matches)
                       /\ { response[r].customers[i].customer_name :
                                i \in 1..Len(response[r].customers) }
                            = { x.customer_name : x \in matches }


---------------------------------------------------------------------------
(* The server: concurrent requests to every endpoint.                      *)

\* customer_policy sub-payload that supplies a value and an explicit null
AgedPolicy == [customer_name |-> Al, age |-> <<"y">>, vehicle_insurance |-> None]

\* UpdateCustomerInfoRequest bodies: neither, either or both sub-payloads
ServerBodies ==
    { Body({}, {}), Body({SimpleInfo}, {}), Body({}, {AgedPolicy}),
      Body({SimpleInfo}, {SimplePolicy}) }

\* Al is unknown, or known to both tables.
InitServer ==
    /\ \E known \in SUBSET {Al} :
            /\ customer_policies = { SeedPolicy(n) : n \in known }
            /\ customer_info = { SeedInfo(n) : n \in known }
    /\ insurance_claims = SeedClaims
    /\ now = MaxDay
    /\ InitRequests

\* Requests are numbered in the order they arrive.
Arrives(r) == \A q \in Reqs : q < r => pc[q] # "idle"

\* A request arrives at one of the endpoints.
Begin(r) ==
    /\ Arrives(r)
    /\ \/ \E body \in ServerBodies : UpdateBegin(r, body)
       \/ GetCustomerInfo(r, Al)
       \/ SearchCustomers(r, <<"a">>)
       \/ GetSimpleCustomerInfo(r, Al)
       \/ HealthCheck(r)
       \/ ReadRoot(r)

NextServer ==
    \/ \E r \in Reqs : Begin(r)
    \/ \E r \in Reqs : UpdateStep(r)

SpecServer == InitServer /\ [][NextServer]_vars

\* Sessions: an update with one sub-payload or none, beside the reads, with
\* Al unknown.
InitSessions ==
    /\ customer_policies = {}
    /\ customer_info = {}
    /\ insurance_claims = SeedClaims
    /\ now = MaxDay
    /\ InitRequests

BeginSession(r) ==
    /\ Arrives(r)
    /\ \/ \E body \in {Body({}, {}), Body({SimpleInfo}, {}), Body({}, {SimplePolicy})} :
                UpdateBegin(r, body)
       \/ GetCustomerInfo(r, Al)
       \/ SearchCustomers(r, <<"a">>)
       \/ GetSimpleCustomerInfo(r, Al)
       \/ HealthCheck(r)
       \/ ReadRoot(r)

NextSessions ==
    \/ \E r \in Reqs : BeginSession(r)
    \/ \E r \in Reqs : UpdateStep(r)

\* A handler that can take a step takes one, and get_db's finally runs.
SpecSessions ==
    /\ InitSessions
    /\ [][NextSessions]_vars
    /\ \A r \in Reqs : WF_vars(UpdateStep(r))


---------------------------------------------------------------------------
(* Properties of the server.                                               *)

\* request r is to an endpoint whose handler depends on get_db
UsesStorage(r) == request[r].endpoint \in {"update", "lookup", "search", "simple", "health"}

\* r is between its arrival and the end of its response
InFlight(r) == pc[r] \notin {"idle", "closed"}

\* C11 (as claimed): every request that has arrived has acquired a storage
\* session.
C11_EveryRequestHasSession ==
    \A r \in Reqs : pc[r] # "idle" => session[r].state # "none"

\* the session of r is open exactly while r is in flight, and is closed once
\* r has ended
SessionScoped(r) ==
    /\ InFlight(r) => session[r].state = "open"
    /\ pc[r] = "closed" => session[r].state = "closed"
    /\ pc[r] = "idle" => session[r].state = "none"

\* a step never reopens or closes again a closed session, and only the
\* request's own end closes it
ReleasedOnce(r) ==
    /\ session[r].state = "closed" => session'[r] = session[r]
    /\ (session[r].state = "open" /\ session'[r].state # "open")
            => /\ session'[r].state = "closed"
               /\ pc[r] = "done"
               /\ pc'[r] = "closed"
               /\ \A q \in Reqs \ {r} : session'[q] = session[q]

\* C11: every request to an endpoint that uses storage (every endpoint but
\* the root) holds its own session from its arrival to its end, whatever the
\* response (200, 400, 404, 500); the session is closed exactly once, at the
\* end of its request, and every open session is eventually closed.  The
\* session of one request is untouched by the steps of another.
C11_SessionReleased ==
    /\ [](\A r \in Reqs : UsesStorage(r) => SessionScoped(r))
    /\ [][\A r \in Reqs : ReleasedOnce(r)]_vars
    /\ [][\A r \in Reqs : pc'[r] = pc[r] => session'[r] = session[r]]_vars
    /\ \A r \in Reqs : (session[r].state = "open") ~> (session[r].state = "closed")

\* An update answered 500 and a simple lookup answered 404 have both ended,
\* their sessions closed.
C11_Witness ==
    \E r, q \in Reqs :
        /\ pc[r] = "closed" /\ pc[q] = "closed"
        /\ IsUpdate(r) /\ response[r].status = 500
        /\ session[r].state = "closed"
        /\ request[q].endpoint = "simple" /\ response[q].status = 404
        /\ session[q].state = "closed"


\* at most one row of the table under each customer_name
UniqueNames(table) ==
    \A x, y \in table : x.customer_name = y.customer_name => x = y

\* r is about to commit an INSERT into the table
Inserting(r, at, table) ==
    /\ pc[r] = at
    /\ session[r].pending.kind = "insert"
    /\ pc'[r] # pc[r]

\* the step of r out of a commit of an INSERT: refused with 500 and rolled
\* back if the name is taken by then, else the one new row is added
InsertStep(r, at, table, tableAfter) ==
    Inserting(r, at, table)
    => IF Found(table, session[r].pending.row.customer_name)
       THEN /\ pc'[r] = "done"
            /\ response'[r].status = 500
            /\ session'[r].pending = NoPending
            /\ tableAfter = table
       ELSE \/ /\ tableAfter = table \cup {session[r].pending.row}
               /\ response'[r] = response[r]
            \/ /\ tableAfter = table
               /\ response'[r].status = 500

\* C12: in every reachable state, under any interleaving of update requests,
\* each customer name has at most one customer_policies row and at most one
\* customer_info row; an insert whose name another request has inserted in
\* the meantime is not committed: its request ends in 500, rolled back.
C12_UniqueNames ==
    /\ [](UniqueNames(customer_policies) /\ UniqueNames(customer_info))
    /\ [][\A r \in Reqs :
            /\ InsertStep(r, "policy_commit", customer_policies, customer_policies')
            /\ InsertStep(r, "info_commit", customer_info, customer_info')]_vars

\* Two updates found no customer_policies row for the same name; one created
\* it and was answered 200, the other was refused at its commit.
C12_Witness ==
    \E r, q \in Reqs :
        /\ r # q
        /\ IsUpdate(r) /\ IsUpdate(q) /\ HasPolicy(r) /\ HasPolicy(q)
        /\ PolicyData(r).customer_name = PolicyData(q).customer_name
        /\ ~Found(BeforePolicies(r), PolicyData(r).customer_name)
        /\ ~Found(BeforePolicies(q), PolicyData(q).customer_name)
        /\ pc[r] = "closed" /\ response[r].status = 200
        /\ pc[q] = "closed" /\ response[q] = HttpError(500, "policy_commit")
        /\ Cardinality(RowsNamed(customer_policies, PolicyData(r).customer_name)) = 1
        /\ NewPolicy(PolicyData(r), now) \in customer_policies


---------------------------------------------------------------------------
(* Properties of the claims summary and the claims list.                   *)

\* the stored claims of the looked-up customer whose status is exactly st
Bucket(r, st) == { c \in ClaimsOf(r) : c.status = st }

ExactStatuses == {"APPROVED", "REJECTED", "UNDER_REVIEW"}

---------------------------------------------------------------------------
(* The full-info lookup, served from claims of any submission time.        *)

RECURSIVE DatedClaimSets(_)
\* the sets of k approved claims of Al, each submitted on any day or holding
\* no date_submitted (the column is nullable)
DatedClaimSets(k) ==
    IF k = 0 THEN {{}}
    ELSE { t \cup {[Claim(k, Al, "APPROVED", <<"1">>) EXCEPT !.date_submitted = d]} :
            t \in DatedClaimSets(k - 1), d \in {NoDate} \cup (1..MaxDay) }

InitOrder ==
    /\ customer_policies \in { {SeedPolicy(Al)}, {SeedPolicy(Al), SeedPolicy(Bo)} }
    /\ customer_info = {}
    /\ \E t \in UNION { DatedClaimSets(k) : k \in 0..MaxClaims } :
       \E b \in SUBSET {Claim(MaxClaims + 1, Bo, "REJECTED", <<"2">>)} :
            insurance_claims = t \cup b
    /\ now = MaxDay
    /\ InitRequests

SpecOrder == InitOrder /\ [][NextLookup]_vars

\* the stored claim behind the i-th entry of the response's claims
StoredClaim(r, i) ==
    CHOOSE c \in ClaimsOf(r) : c.claim_id = response[r].claims[i].claim_id

\* the latest date_submitted among the customer's claims
LatestDate(r) ==
    CHOOSE d \in { c.date_submitted : c \in ClaimsOf(r) } :
        \A c \in ClaimsOf(r) : c.date_submitted <= d

\* C14 (as claimed): for every customer with a customer_policies row the
\* lookup is answered 200, whatever claims are stored (claims without
\* date_submitted included); claims lists exactly the customer's claims, by
\* date_submitted descending, and last_claim_date is the date of the most
\* recent of them, or null without claims.
C14_ClaimsOrderedAndLastDate ==
    \A r \in Reqs :
        (IsLookup(r) /\ Responded(r) /\ Found(BeforePolicies(r), request[r].customer_name))
        => /\ response[r].status = 200
           /\ Len(response[r].claims) = Cardinality(ClaimsOf(r))
           /\ { response[r].claims[i].claim_id : i \in 1..Len(response[r].claims) }
                = { c.claim_id : c \in ClaimsOf(r) }
           /\ \A i, j \in 1..Len(response[r].claims) :
                i < j => StoredClaim(r, i).date_submitted
                            >= StoredClaim(r, j).date_submitted
           /\ response[r].claims_summary.last_claim_date =
                IF ClaimsOf(r) = {} THEN None ELSE IsoFormat(LatestDate(r))


---------------------------------------------------------------------------
(* Properties of the stored rows over sequences of requests.               *)

DateColumns == {"last_policy_renewal", "customer_since", "created_at", "updated_at"}

\* column f of the row holds a value
NonNull(row, f) ==
    IF f \in DateColumns THEN row[f] # NoDate ELSE row[f] # None

\* the row is in the table after the step, with the customer_since it had and
\* a value in every column that held one
Kept(x, after) ==
    \E y \in after :
        /\ y.customer_name = x.customer_name
        /\ y.customer_since = x.customer_since
        /\ \A f \in PolicyColumns : NonNull(x, f) => NonNull(y, f)

\* request r arrives in this step as a full-info lookup of a stored customer
LooksUpStored(r) ==
    /\ pc[r] = "idle"
    /\ pc'[r] # "idle"
    /\ request'[r].endpoint = "lookup"
    /\ Found(customer_policies, request'[r].customer_name)

\* C15: no step of any request to any endpoint deletes a customer_policies
\* row, turns a non-null column of it to null or changes its customer_since;
\* and a full-info lookup of a name that has a row is never answered 404.
C15_PolicyRowsKept ==
    /\ [][\A x \in customer_policies : Kept(x, customer_policies')]_vars
    /\ [][\A r \in Reqs : LooksUpStored(r) => response'[r].status # 404]_vars

\* A row written on day 1 was updated on a later day by a payload holding a
\* value and an explicit null; the row has the value, its vehicle_insurance
\* and its customer_since, and a lookup that arrived afterwards found it.
C15_Witness ==
    \E r, q \in Reqs :
        /\ IsUpdate(r) /\ HasPolicy(r) /\ pc[r] = "closed"
        /\ response[r].status = 200
        /\ RawPolicy(r) = AgedPolicy
        /\ SeedPolicy(Al) \in BeforePolicies(r)
        /\ customer_policies =
                {[SeedPolicy(Al) EXCEPT !.age = <<"y">>, !.updated_at = now]}
        /\ now > SeedPolicy(Al).customer_since
        /\ IsLookup(q) /\ pc[q] = "closed"
        /\ BeforePolicies(q) = customer_policies
        /\ response[q].status = 200


---------------------------------------------------------------------------
(* Frame of the endpoints.                                                 *)

ReadEndpoints == {"lookup", "search", "simple", "health", "root"}

\* the step is taken by request r
StepOf(r) == pc'[r] # pc[r]

\* the step is the successful commit of r's sub-payload for that table
CommitsAt(r, at, key) ==
    /\ request[r].endpoint = "update"
    /\ key \in DOMAIN request[r].body
    /\ pc[r] = at
    /\ StepOf(r)

\* C16: no step changes insurance_claims; customer_policies changes only in
\* the commit of an update request carrying customer_policy, customer_info
\* only in the commit of an update request carrying customer_info (so an
\* info-only update leaves customer_policies alone and a policy-only update
\* leaves customer_info alone); the steps of the full-info lookup, search,
\* simple lookup, health and root requests change no table.
C16_Frame ==
    /\ [][insurance_claims' = insurance_claims]_vars
    /\ [][customer_policies' # customer_policies
            => \E r \in Reqs : CommitsAt(r, "policy_commit", "customer_policy")]_vars
    /\ [][customer_info' # customer_info
            => \E r \in Reqs : CommitsAt(r, "info_commit", "customer_info")]_vars
    /\ [][\A r \in Reqs :
            (StepOf(r) /\ request'[r].endpoint \in ReadEndpoints)
            => tables' = tables]_vars
    /\ [][\A r \in Reqs :
            (StepOf(r) /\ request'[r].endpoint = "update")
            => /\ "customer_policy" \notin DOMAIN request'[r].body
                    => customer_policies' = customer_policies
               /\ "customer_info" \notin DOMAIN request'[r].body
                    => customer_info' = customer_info]_vars

\* An info-only update has created Al's customer_info row and left the other
\* tables as they were, and a simple lookup that arrived afterwards has
\* returned the row and left all three as they were.
C16_Witness ==
    \E r, q \in Reqs :
        /\ IsUpdate(r) /\ HasInfo(r) /\ ~HasPolicy(r) /\ pc[r] = "closed"
        /\ response[r].status = 200
        /\ BeforeInfo(r) = {}
        /\ customer_info # {}
        /\ customer_policies = BeforePolicies(r)
        /\ insurance_claims = SeedClaims
        /\ request[q].endpoint = "simple" /\ pc[q] = "closed"
        /\ response[q].status = 200
        /\ before[q] = tables

=============================================================================
